---- MODULE Spec2Model ----
(***************************************************************************)
(* A model of propositions/syntax.py: the symbol classifiers, the Formula  *)
(* constructor, the two printers (__repr__, polish), the two parsers       *)
(* (_parse_prefix / is_formula / parse, parse_polish) and the two          *)
(* substitution methods.                                                   *)
(*                                                                         *)
(* Python values are modelled as follows.                                  *)
(*   str              a TLA+ string; s[i] is At(s, i) with Python's        *)
(*                    0-based index                                        *)
(*   Optional[X]      None is <<>>, a present x is <<x>>                   *)
(*   Formula          [root |-> str, now |-> Optional, next |-> Optional]  *)
(*   a call's outcome [exc |-> "", val |-> the returned value], or         *)
(*                    [exc |-> the exception's class, val |-> its message] *)
(***************************************************************************)
EXTENDS Naturals, Sequences, FiniteSets

VARIABLES
    string,   \* the caller's text (the input of the textual operations)
    formula,  \* the caller's Formula object, Optional
    args,     \* the further arguments of the last call (operands, a map)
    call,     \* the calls made so far, oldest first
    ret       \* the outcome of the last call

vars == <<string, formula, args, call, ret>>

-----------------------------------------------------------------------------
(* Python values *)

None == <<>>

Some(x) == <<x>>

Return(v) == [exc |-> "", val |-> v]

Raise(e, msg) == [exc |-> e, val |-> msg]

\* string[i]
At(s, i) == SubSeq(s, i + 1, i + 1)

\* string[a:b] and string[a:], for 0 <= a
Slice(s, a, b) == SubSeq(s, a + 1, b)

From(s, a) == SubSeq(s, a + 1, Len(s))

\* string.startswith(prefix, i)
StartsWith(s, prefix, i) ==
    /\ i + Len(prefix) <= Len(s)
    /\ SubSeq(s, i + 1, i + Len(prefix)) = prefix

\* The code point of a character, for the characters the inputs are made of.
Ord(c) ==
    CASE c = "&" -> 38
      [] c = "(" -> 40
      [] c = ")" -> 41
      [] c = "+" -> 43
      [] c = "-" -> 45
      [] c = "0" -> 48
      [] c = "1" -> 49
      [] c = "2" -> 50
      [] c = "7" -> 55
      [] c = "<" -> 60
      [] c = ">" -> 62
      [] c = "F" -> 70
      [] c = "T" -> 84
      [] c = "a" -> 97
      [] c = "o" -> 111
      [] c = "p" -> 112
      [] c = "q" -> 113
      [] c = "r" -> 114
      [] c = "x" -> 120
      [] c = "y" -> 121
      [] c = "z" -> 122
      [] c = "{" -> 123
      [] c = "|" -> 124
      [] c = "~" -> 126

\* str.isdecimal(): every character is a decimal digit, and there is one
isdecimal(s) ==
    /\ Len(s) > 0
    /\ \A i \in 0 .. Len(s) - 1 : Ord(At(s, i)) >= 48 /\ Ord(At(s, i)) <= 57

-----------------------------------------------------------------------------
(* The symbol classifiers *)

\* string[0] raises IndexError on the empty string
is_variable(s) ==
    IF s = ""
    THEN Raise("IndexError", "string index out of range")
    ELSE Return(/\ Ord(At(s, 0)) >= Ord("p")
                /\ Ord(At(s, 0)) <= Ord("z")
                /\ (Len(s) = 1 \/ isdecimal(From(s, 1))))

is_constant(s) == s = "T" \/ s = "F"

is_unary(s) == s = "~"

\* is_binary with the operators of the commented-out line
is_binary_extended(s) == s \in {"&", "|", "->", "+", "<->", "-&", "-|"}

is_binary(s) == s = "&" \/ s = "|" \/ s = "->"

-----------------------------------------------------------------------------
(* Formula.__init__ *)

Node(root, now, next) == [root |-> root, now |-> now, next |-> next]

\* The constructor with the two operands of a binary node stored crosswise
Formula_crossed(root, now, next) ==
    LET v == is_variable(root) IN
    IF v.exc # "" THEN v
    ELSE IF v.val \/ is_constant(root)
    THEN IF now = None /\ next = None
         THEN Return(Node(root, None, None))
         ELSE Raise("AssertionError", "")
    ELSE IF is_unary(root)
    THEN IF now # None /\ next = None
         THEN Return(Node(root, now, None))
         ELSE Raise("AssertionError", "")
    ELSE IF ~is_binary(root)
    THEN Raise("AssertionError", "")
    ELSE IF now # None /\ next # None
    THEN Return(Node(root, next, now))
    ELSE Raise("AssertionError", "")

\* The outcome of Formula(root, now, next); the operands are Optionals.
\* A leaf sets only self.root, a unary node only self.root and self.now.
Formula(root, now, next) ==
    LET v == is_variable(root) IN
    IF v.exc # "" THEN v
    ELSE IF v.val \/ is_constant(root)
    THEN IF now = None /\ next = None
         THEN Return(Node(root, None, None))
         ELSE Raise("AssertionError", "")
    ELSE IF is_unary(root)
    THEN IF now # None /\ next = None
         THEN Return(Node(root, now, None))
         ELSE Raise("AssertionError", "")
    ELSE IF ~is_binary(root)
    THEN Raise("AssertionError", "")
    ELSE IF now # None /\ next # None
    THEN Return(Node(root, now, next))
    ELSE Raise("AssertionError", "")

-----------------------------------------------------------------------------
(* Formula.__repr__, Formula.polish, Formula.__eq__ *)

RECURSIVE repr(_)
\* repr with the two operands of a binary node printed in the wrong order
repr_swapped(self) ==
    IF is_unary(self.root)
    THEN self.root \o repr(self.now[1])
    ELSE IF is_constant(self.root) \/ is_variable(self.root).val
    THEN self.root
    ELSE "(" \o repr(self.next[1]) \o self.root \o repr(self.now[1]) \o ")"

repr(self) ==
    IF is_unary(self.root)
    THEN self.root \o repr(self.now[1])
    ELSE IF is_constant(self.root) \/ is_variable(self.root).val
    THEN self.root
    ELSE "(" \o repr(self.now[1]) \o self.root \o repr(self.next[1]) \o ")"

RECURSIVE polish(_)
polish(self) ==
    IF is_constant(self.root) \/ is_variable(self.root).val
    THEN self.root
    ELSE IF is_unary(self.root)
    THEN self.root \o polish(self.now[1])
    ELSE self.root \o polish(self.now[1]) \o polish(self.next[1])

\* self == other, for two Formula objects
eq(self, other) == repr(self) = repr(other)

-----------------------------------------------------------------------------
(* Formula._parse_prefix, Formula.is_formula, Formula.parse *)

\* The operator spellings _parse_prefix tries, in the order of its loop.
Candidates == <<"<->", "-&", "->", "-|", "&", "|", "+">>

\* The loop over Candidates: the index of the first one ost starts with, or 0
\* when the loop ends with chr still None.
FirstCandidate(ost) ==
    LET hits == {i \in 1 .. Len(Candidates) : StartsWith(ost, Candidates[i], 0)}
    IN  IF hits = {} THEN 0
        ELSE CHOOSE i \in hits : \A j \in hits : i <= j

\* SkipDigits that takes one digit at most
SkipDigits_once(s, num) ==
    IF num < Len(s) /\ isdecimal(At(s, num)) THEN num + 1 ELSE num

\* The while loop of the variable branch: the first index from num on that is
\* past the end or holds no decimal digit.
RECURSIVE SkipDigits(_, _)
SkipDigits(s, num) ==
    IF num < Len(s) /\ isdecimal(At(s, num))
    THEN SkipDigits(s, num + 1)
    ELSE num

\* The outcome of _parse_prefix(s): a returned pair <<Optional Formula, str>>,
\* or an exception raised by a call it makes.
RECURSIVE _parse_prefix(_)
_parse_prefix(s) ==
    IF s = "" THEN Return(<<None, "End of input">>)
    ELSE LET sym == At(s, 0) IN
    IF is_constant(sym)
    THEN LET c == Formula(sym, None, None) IN
         IF c.exc # "" THEN c ELSE Return(<<Some(c.val), From(s, 1)>>)
    ELSE IF sym = "("
    THEN LET first == _parse_prefix(From(s, 1)) IN
         IF first.exc # "" THEN first
         ELSE IF first.val[1] = None THEN Return(<<None, first.val[2]>>)
         ELSE IF first.val[2] = "" THEN Return(<<None, "Missing operator">>)
         ELSE LET k == FirstCandidate(first.val[2]) IN
         IF k = 0 THEN Return(<<None, "Invalid operator">>)
         ELSE IF ~is_binary(Candidates[k])
         THEN Return(<<None, "Invalid operator">>)
         ELSE LET second ==
                      _parse_prefix(From(first.val[2], Len(Candidates[k]))) IN
         IF second.exc # "" THEN second
         ELSE IF second.val[1] = None THEN Return(<<None, second.val[2]>>)
         ELSE IF second.val[2] = "" \/ At(second.val[2], 0) # ")"
         THEN Return(<<None, "Not closed">>)
         ELSE LET c == Formula(Candidates[k], first.val[1], second.val[1]) IN
              IF c.exc # "" THEN c
              ELSE Return(<<Some(c.val), From(second.val[2], 1)>>)
    ELSE IF sym = "~"
    THEN LET leaf == _parse_prefix(From(s, 1)) IN
         IF leaf.exc # "" THEN leaf
         ELSE IF leaf.val[1] = None THEN Return(<<None, leaf.val[2]>>)
         ELSE LET c == Formula("~", leaf.val[1], None) IN
              IF c.exc # "" THEN c
              ELSE Return(<<Some(c.val), leaf.val[2]>>)
    ELSE IF Ord("p") <= Ord(sym) /\ Ord(sym) <= Ord("z")
    THEN LET num == SkipDigits(s, 1)
             res == Slice(s, 0, num)
             v == is_variable(res) IN
         IF v.exc # "" THEN v
         ELSE IF ~v.val THEN Return(<<None, "Invalid">>)
         ELSE LET c == Formula(res, None, None) IN
              IF c.exc # "" THEN c
              ELSE Return(<<Some(c.val), From(s, num)>>)
    ELSE Return(<<None, "Invalid pref">>)

is_formula(s) ==
    LET r == _parse_prefix(s) IN
    IF r.exc # "" THEN r
    ELSE Return(r.val[1] # None /\ r.val[2] = "")

\* assert is_formula(string); then the same parse again, asserted again
parse(s) ==
    LET ok == is_formula(s) IN
    IF ok.exc # "" THEN ok
    ELSE IF ~ok.val THEN Raise("AssertionError", "")
    ELSE LET r == _parse_prefix(s) IN
         IF r.exc # "" THEN r
         ELSE IF ~(r.val[1] # None /\ r.val[2] = "")
         THEN Raise("AssertionError", "")
         ELSE Return(r.val[1][1])

-----------------------------------------------------------------------------
(* Formula.parse_polish *)

\* The tokenizer: the while loop from index i on, res the tokens so far.
RECURSIVE Tokenize(_, _, _)
Tokenize(s, i, res) ==
    IF ~(i < Len(s)) THEN Return(res)
    ELSE LET symb == At(s, i) IN
    IF symb = "T" \/ symb = "F" THEN Tokenize(s, i + 1, Append(res, symb))
    ELSE IF symb = "~" THEN Tokenize(s, i + 1, Append(res, "~"))
    ELSE IF symb \in {"&", "|", "+"} THEN Tokenize(s, i + 1, Append(res, symb))
    ELSE IF StartsWith(s, "<->", i) THEN Tokenize(s, i + 3, Append(res, "<->"))
    ELSE IF StartsWith(s, "->", i) THEN Tokenize(s, i + 2, Append(res, "->"))
    ELSE IF StartsWith(s, "-&", i) THEN Tokenize(s, i + 2, Append(res, "-&"))
    ELSE IF StartsWith(s, "-|", i) THEN Tokenize(s, i + 2, Append(res, "-|"))
    ELSE IF Ord("p") <= Ord(symb) /\ Ord(symb) <= Ord("z")
    THEN LET nxt == SkipDigits(s, i + 1)
             leaf == Slice(s, i, nxt)
             v == is_variable(leaf) IN
         IF v.exc # "" THEN v
         ELSE IF ~v.val THEN Raise("ValueError", "Invalid variable")
         ELSE Tokenize(s, nxt, Append(res, leaf))
    ELSE Raise("ValueError", "Invalid symbol")

\* list.pop() and the list it leaves
Top(stack) == stack[Len(stack)]

Pop(stack) == SubSeq(stack, 1, Len(stack) - 1)

\* ReduceBinary with the second node popped taken as operand 1
ReduceBinary_swapped(el, res_string) ==
    IF Len(res_string) < 2 THEN Raise("ValueError", "Invalid")
    ELSE LET now == Top(res_string)
             next == Top(Pop(res_string))
             c == Formula(el, Some(next), Some(now)) IN
         IF c.exc # "" THEN c
         ELSE Return(Append(Pop(Pop(res_string)), c.val))

\* A binary token: the first node popped is operand 1, the second operand 2.
\* The outcome holds the stack the step leaves.
ReduceBinary(el, res_string) ==
    IF Len(res_string) < 2 THEN Raise("ValueError", "Invalid")
    ELSE LET now == Top(res_string)
             next == Top(Pop(res_string))
             c == Formula(el, Some(now), Some(next)) IN
         IF c.exc # "" THEN c
         ELSE Return(Append(Pop(Pop(res_string)), c.val))

ReduceUnary(el, res_string) ==
    IF Len(res_string) < 1 THEN Raise("ValueError", "Invalid")
    ELSE LET leaf == Top(res_string)
             c == Formula(el, Some(leaf), None) IN
         IF c.exc # "" THEN c
         ELSE Return(Append(Pop(res_string), c.val))

\* Reduced without the check that nothing else is left on the stack
Reduced_lenient(res_string) ==
    IF Len(res_string) < 1 THEN Raise("ValueError", "Invalid")
    ELSE Return(res_string[1])

\* After the loop: exactly one node is left, and it is the result.
Reduced(res_string) ==
    IF Len(res_string) # 1 THEN Raise("ValueError", "Invalid")
    ELSE Return(res_string[1])

\* The reduction: the for loop over reversed(res), at the token res[k]
\* (k = 0 when the loop is over), res_string the stack of Formula objects.
RECURSIVE Reduce(_, _, _)
Reduce(res, k, res_string) ==
    IF k = 0 THEN Reduced(res_string)
    ELSE LET el == res[k]
             v == is_variable(el) IN
    IF ~is_constant(el) /\ v.exc # "" THEN v
    ELSE IF is_constant(el) \/ v.val
    THEN LET c == Formula(el, None, None) IN
         IF c.exc # "" THEN c
         ELSE Reduce(res, k - 1, Append(res_string, c.val))
    ELSE IF is_binary(el)
    THEN LET step == ReduceBinary(el, res_string) IN
         IF step.exc # "" THEN step ELSE Reduce(res, k - 1, step.val)
    ELSE IF is_unary(el)
    THEN LET step == ReduceUnary(el, res_string) IN
         IF step.exc # "" THEN step ELSE Reduce(res, k - 1, step.val)
    ELSE Raise("ValueError", "Invalid")

parse_polish(s) ==
    LET res == Tokenize(s, 0, <<>>) IN
    IF res.exc # "" THEN res
    ELSE Reduce(res.val, Len(res.val), <<>>)

-----------------------------------------------------------------------------
(* Formula.variables, Formula.substitute_variables,                        *)
(* Formula.substitute_operators                                            *)

RECURSIVE variables(_)
variables(self) ==
    IF is_constant(self.root) THEN {}
    ELSE IF is_variable(self.root).val THEN {self.root}
    ELSE IF is_unary(self.root) THEN variables(self.now[1])
    ELSE variables(self.now[1]) \cup variables(self.next[1])

\* A substitution map is the sequence of its <<key, value>> items, in the
\* order the loops over it visit them.

\* The loop of assertions of substitute_variables from item i on: the first
\* exception raised, or "" when every assertion passes.
RECURSIVE VariableKeysChecked(_, _)
VariableKeysChecked(substitution_map, i) ==
    IF i > Len(substitution_map) THEN ""
    ELSE LET v == is_variable(substitution_map[i][1]) IN
    IF v.exc # "" THEN v.exc
    ELSE IF ~v.val THEN "AssertionError"
    ELSE VariableKeysChecked(substitution_map, i + 1)

\* The method's body ends after the assertions: it returns None.
substitute_variables(self, substitution_map) ==
    LET e == VariableKeysChecked(substitution_map, 1) IN
    IF e # "" THEN Raise(e, "") ELSE Return(None)

RECURSIVE OperatorKeysChecked(_, _)
OperatorKeysChecked(substitution_map, i) ==
    IF i > Len(substitution_map) THEN ""
    ELSE LET operator == substitution_map[i][1] IN
    IF ~(is_constant(operator) \/ is_unary(operator) \/ is_binary(operator))
    THEN "AssertionError"
    ELSE IF ~(variables(substitution_map[i][2]) \subseteq {"p", "q"})
    THEN "AssertionError"
    ELSE OperatorKeysChecked(substitution_map, i + 1)

\* The method's body ends after the assertions: it returns None.
substitute_operators(self, substitution_map) ==
    LET e == OperatorKeysChecked(substitution_map, 1) IN
    IF e # "" THEN Raise(e, "") ELSE Return(None)

-----------------------------------------------------------------------------
(* The inputs *)

\* The largest Formula object a caller starts with, in nodes.
MaxNodes == 5

\* The largest Formula object whose two printed forms, whole and damaged, are
\* among the texts a caller starts with, in nodes.
MaxTextNodes == 5

\* The longest text over Alphabet a caller starts with, in characters.
MaxChars == 2

\* The longest text over Tokens a caller starts with, in tokens.
MaxTokens == 3

\* The largest operand handed to the constructor, in nodes.
MaxOperandNodes == 2

\* The longest chain of calls, each applied to what the one before returned.
MaxCalls == 2

\* A Formula object as the constructor leaves it.
New(root, now, next) == Formula(root, now, next).val

\* The Formula objects of exactly n nodes with the given leaf and binary
\* roots, each built by the constructor.
RECURSIVE FormulasOfSize(_, _, _)
FormulasOfSize(n, leaves, binaries) ==
    IF n = 1 THEN {New(r, None, None) : r \in leaves}
    ELSE {New("~", Some(f), None) : f \in FormulasOfSize(n - 1, leaves, binaries)}
         \cup UNION {{New(r, Some(f), Some(g)) :
                          r \in binaries,
                          f \in FormulasOfSize(k, leaves, binaries),
                          g \in FormulasOfSize(n - 1 - k, leaves, binaries)} :
                     k \in 1 .. n - 2}

Formulas(n, leaves, binaries) ==
    UNION {FormulasOfSize(k, leaves, binaries) : k \in 1 .. n}

Leaf(root) == New(root, None, None)

Not(f) == New("~", Some(f), None)

Bin(f, root, g) == New(root, Some(f), Some(g))

\* The formulas of the docstring examples of the two substitution methods:
\* ((p->p)|r) and ((x&y)&~z).
DocstringFormulas ==
    { Bin(Bin(Leaf("p"), "->", Leaf("p")), "|", Leaf("r")),
      Bin(Bin(Leaf("x"), "&", Leaf("y")), "&", Not(Leaf("z"))) }

StartFormulas ==
    Formulas(MaxNodes, {"T", "p", "q7"}, {"&", "|", "->"})
        \cup DocstringFormulas

\* The maps handed to substitute_variables: none, the docstring's
\* {p: (q&r), r: p}, a chain {p: ~q7, q7: (p|T)}, one with a key that is no
\* variable, one with the empty key.
VariableMaps ==
    { <<>>,
      << <<"p", Bin(Leaf("q"), "&", Leaf("r"))>>, <<"r", Leaf("p")>> >>,
      << <<"p", Not(Leaf("q7"))>>, <<"q7", Bin(Leaf("p"), "|", Leaf("T"))>> >>,
      << <<"p", Leaf("T")>>, <<"T", Leaf("p")>> >>,
      << <<"", Leaf("p")>> >> }

\* The maps handed to substitute_operators: none, the docstring's
\* {&: ~(~p|~q)}, {&: (q&(p&p)), ->: (~p|q)} whose first template holds its
\* own key, {T: (p|~p), ~: (p->F)}, one with a key that is no operator, one
\* whose template holds a variable other than p and q.
OperatorMaps ==
    { <<>>,
      << <<"&", Not(Bin(Not(Leaf("p")), "|", Not(Leaf("q"))))>> >>,
      << <<"&", Bin(Leaf("q"), "&", Bin(Leaf("p"), "&", Leaf("p")))>>,
         <<"->", Bin(Not(Leaf("p")), "|", Leaf("q"))>> >>,
      << <<"T", Bin(Leaf("p"), "|", Not(Leaf("p")))>>,
         <<"~", Bin(Leaf("p"), "->", Leaf("F"))>> >>,
      << <<"p", Leaf("q")>> >>,
      << <<"|", Bin(Leaf("p"), "|", Leaf("r"))>> >> }

Alphabet ==
    {"T", "F", "p", "z", "o", "{", "0", "7", "a",
     "(", ")", "~", "&", "|", "-", ">", "<", "+"}

\* The texts of exactly n characters of Alphabet.
RECURSIVE CharStrings(_)
CharStrings(n) ==
    IF n = 0 THEN {""} ELSE {s \o c : s \in CharStrings(n - 1), c \in Alphabet}

Tokens == {"T", "p", "7", "(", ")", "~", "&", "->", "<->", "+", "a"}

\* The texts made of exactly n of the Tokens.
RECURSIVE TokenStrings(_)
TokenStrings(n) ==
    IF n = 0 THEN {""} ELSE {s \o t : s \in TokenStrings(n - 1), t \in Tokens}

\* The two printed forms of the formulas over T, q7, ~, & and ->.
Printed ==
    UNION {{repr(f), polish(f)} :
               f \in Formulas(MaxTextNodes, {"T", "q7"}, {"&", "->"})}

\* A printed form with one character missing, or with one more symbol.
Damaged ==
    UNION {{SubSeq(s, 1, i - 1) \o SubSeq(s, i + 1, Len(s)) : i \in 1 .. Len(s)}
               \cup {s \o t : t \in {")", "p", "7"}} : s \in Printed}

\* A binary formula's text with each spelling in the operator's place.
Probes ==
    {"(" \o a \o op \o b \o ")" :
         a \in {"p", "~T"}, b \in {"q7", "T"},
         op \in {Candidates[i] : i \in 1 .. Len(Candidates)}
                    \cup {"-", "<-", ">", "&&", "~"}}

\* The texts of the documented examples.
Examples ==
    {"q7&p", "x12", "~x12&p", "(p&q)", "p&q", "((p&q)", "~(p|q)", "&pq",
     "((p->p)|r)", "(((q&r)->(q&r))|p)", "((x&y)&~z)", "~(~~(~x|~y)|~~z)"}

StartTexts ==
    UNION {CharStrings(n) : n \in 0 .. MaxChars}
        \cup UNION {TokenStrings(n) : n \in 0 .. MaxTokens}
        \cup Printed \cup Damaged \cup Probes \cup Examples

\* The roots handed to the constructor.
Roots ==
    {"", "T", "F", "TT", "p", "z", "o", "{", "q7", "p70", "7", "p7p", "pp",
     "~", "~~", "~p", "&", "|", "->", "-", "<->", "-&", "-|", "+", "(", "(p&p)"}

Operands ==
    {None} \cup {Some(f) : f \in Formulas(MaxOperandNodes, {"T", "p"}, {"&"})}

NoArgs == <<>>

NoRet == Return(None)

Last(calls) == calls[Len(calls)]

-----------------------------------------------------------------------------
(* The calls *)

\* A call takes what the call before it returned, or, being the first call,
\* the caller's own object.
HasFormula ==
    IF call = <<>> THEN formula # None
    ELSE ret.exc = "" /\ Last(call) \in {"parse", "parse_polish"}

TheFormula == IF call = <<>> THEN formula[1] ELSE ret.val

HasText ==
    IF call = <<>> THEN formula = None /\ args = NoArgs
    ELSE ret.exc = "" /\ Last(call) \in {"repr", "polish"}

TheText == IF call = <<>> THEN string ELSE ret.val

\* The caller's text as a single symbol: the first call, on a short text.
HasSymbol == call = <<>> /\ formula = None /\ args = NoArgs /\ Len(string) <= MaxChars + 1

Called(name, arguments, outcome) ==
    /\ Len(call) < MaxCalls
    /\ call' = Append(call, name)
    /\ args' = arguments
    /\ ret' = outcome
    /\ UNCHANGED <<string, formula>>

Repr == HasFormula /\ Called("repr", NoArgs, Return(repr(TheFormula)))

Polish == HasFormula /\ Called("polish", NoArgs, Return(polish(TheFormula)))

Parse == HasText /\ Called("parse", NoArgs, parse(TheText))

ParsePolish == HasText /\ Called("parse_polish", NoArgs, parse_polish(TheText))

ParsePrefix == HasText /\ Called("_parse_prefix", NoArgs, _parse_prefix(TheText))

IsFormula == HasText /\ Called("is_formula", NoArgs, is_formula(TheText))

IsVariable == HasSymbol /\ Called("is_variable", NoArgs, is_variable(string))

IsConstant == HasSymbol /\ Called("is_constant", NoArgs, Return(is_constant(string)))

IsUnary == HasSymbol /\ Called("is_unary", NoArgs, Return(is_unary(string)))

IsBinary == HasSymbol /\ Called("is_binary", NoArgs, Return(is_binary(string)))

\* Formula(string, now, next), the operands being the caller's two to pass
Construct ==
    /\ call = <<>>
    /\ formula = None
    /\ args # NoArgs
    /\ Called("Formula", args, Formula(string, args[1], args[2]))

SubstituteVariables ==
    /\ HasFormula
    /\ \E m \in VariableMaps :
           Called("substitute_variables", m, substitute_variables(TheFormula, m))

SubstituteOperators ==
    /\ HasFormula
    /\ \E m \in OperatorMaps :
           Called("substitute_operators", m, substitute_operators(TheFormula, m))

-----------------------------------------------------------------------------
(* The specifications *)

\* A caller that holds a Formula object.
InitTree ==
    /\ formula \in {Some(f) : f \in StartFormulas}
    /\ string = ""
    /\ args = NoArgs
    /\ call = <<>>
    /\ ret = NoRet

NextTree ==
    \/ Repr
    \/ Polish
    \/ Parse
    \/ ParsePolish
    \/ SubstituteVariables
    \/ SubstituteOperators

SpecTree == InitTree /\ [][NextTree]_vars

\* A caller that holds a text.
InitText ==
    /\ string \in StartTexts
    /\ formula = None
    /\ args = NoArgs
    /\ call = <<>>
    /\ ret = NoRet

NextText ==
    \/ ParsePrefix
    \/ IsFormula
    \/ Parse
    \/ ParsePolish
    \/ Repr
    \/ Polish
    \/ IsVariable
    \/ IsConstant
    \/ IsUnary
    \/ IsBinary

SpecText == InitText /\ [][NextText]_vars

\* A caller that holds a root and two operands to build a Formula from.
InitNew ==
    /\ string \in Roots
    /\ formula = None
    /\ args \in {<<now, next>> : now \in Operands, next \in Operands}
    /\ call = <<>>
    /\ ret = NoRet

NextNew == Construct

SpecNew == InitNew /\ [][NextNew]_vars

Init == InitTree \/ InitText \/ InitNew

Next == NextTree \/ NextText \/ NextNew

Spec == Init /\ [][Next]_vars

-----------------------------------------------------------------------------
(* The properties *)

\* C1: for every formula f the constructor builds, parse(repr(f)) succeeds
\* and returns a formula with the same root and, recursively, the same
\* operands as f (and so one that == finds equal to f).
ParseOfReprIsTheFormula ==
    call = <<"repr", "parse">> =>
        /\ ret.exc = ""
        /\ ret.val = formula[1]
        /\ eq(ret.val, formula[1])

\* ((p->q7)|T) printed and parsed back
ParseOfReprReached ==
    /\ call = <<"repr", "parse">>
    /\ ret.exc = ""
    /\ formula[1].root = "|"
    /\ formula[1].now[1].root = "->"
    /\ formula[1].now[1].now[1].root = "p"
    /\ formula[1].now[1].next[1].root = "q7"
    /\ formula[1].next[1].root = "T"

\* C3: for every formula f, parse_polish(polish(f)) succeeds and returns a
\* formula with the same root and operands as f: of each binary operator
\* the node popped first is operand 1 and the node popped second operand 2.
ParsePolishOfPolishIsTheFormula ==
    call = <<"polish", "parse_polish">> =>
        /\ ret.exc = ""
        /\ ret.val = formula[1]

\* (p->(q7&T)), whose two operands differ, printed as ->p&q7T and parsed
ParsePolishOfPolishReached ==
    /\ call = <<"polish", "parse_polish">>
    /\ ret.exc = ""
    /\ ret.val.root = "->"
    /\ ret.val.now[1].root = "p"
    /\ ret.val.next[1].root = "&"
    /\ ret.val.next[1].now[1].root = "q7"
    /\ ret.val.next[1].next[1].root = "T"

\* C2: for every text s that is_formula accepts, parse(s) succeeds and
\* repr(parse(s)) is s, character for character.
ReprOfParseIsTheText ==
    /\ call = <<"parse">> /\ is_formula(string) = Return(TRUE) => ret.exc = ""
    /\ call = <<"parse", "repr">> => ret = Return(string)

\* ((T->q7)&q7) parsed and printed back
ReprOfParseReached ==
    /\ call = <<"parse", "repr">>
    /\ string = "((T->q7)&q7)"
    /\ ret.val = "((T->q7)&q7)"

\* The index of the first character of s from k on that is not "~".
RECURSIVE SkipNots(_, _)
SkipNots(s, k) == IF k < Len(s) /\ At(s, k) = "~" THEN SkipNots(s, k + 1) ELSE k

\* The operand k levels of operand 1 below f.
RECURSIVE Under(_, _)
Under(f, k) == IF k = 0 THEN f ELSE Under(f.now[1], k - 1)

IsLetter(c) == Ord("p") <= Ord(c) /\ Ord(c) <= Ord("z")

IsDigit(c) == c \in {"0", "1", "2", "3", "4", "5", "6", "7", "8", "9"}

\* C9: when the text starts with a variable, behind any number of ~,
\* _parse_prefix returns those ~ applied to the variable made of the letter
\* and all the decimal digits right after it, so the remainder starts with
\* no digit; and whenever it returns a formula, that formula's string
\* followed by the remainder is the text.
PrefixTakesTheWholeVariable ==
    call = <<"_parse_prefix">> =>
        /\ ret.exc = ""
        /\ ret.val[1] # None => repr(ret.val[1][1]) \o ret.val[2] = string
        /\ LET k == SkipNots(string, 0) IN
           k < Len(string) /\ IsLetter(At(string, k)) =>
               /\ ret.val[1] # None
               /\ LET name == Under(ret.val[1][1], k).root IN
                  /\ StartsWith(string, name, k)
                  /\ \A i \in 1 .. Len(name) - 1 : IsDigit(At(name, i))
                  /\ ret.val[2] = From(string, k + Len(name))
               /\ ret.val[2] = "" \/ ~IsDigit(At(ret.val[2], 0))

\* q7&p gives the variable q7 and leaves &p
PrefixTakesTheWholeVariableReached ==
    /\ call = <<"_parse_prefix">>
    /\ string = "q7&p"
    /\ ret = Return(<<Some(Leaf("q7")), "&p">>)

Diagnostics ==
    {"End of input", "Missing operator", "Invalid operator", "Not closed",
     "Invalid", "Invalid pref"}

\* C10: for every text _parse_prefix raises nothing and returns either a
\* formula with the unconsumed rest of the text or None with a diagnostic:
\* "End of input" for the empty text, "Invalid operator" where operand 1 is
\* followed by anything but &, | or ->, and the diagnostic of the operand's
\* own parse, unchanged, where the parse of an operand fails.
PrefixReportsFailureAsData ==
    call = <<"_parse_prefix">> =>
        /\ ret.exc = ""
        /\ IF ret.val[1] = None THEN ret.val[2] \in Diagnostics
           ELSE /\ Len(ret.val[2]) < Len(string)
                /\ ret.val[2] = From(string, Len(string) - Len(ret.val[2]))
        /\ string = "" => ret.val = <<None, "End of input">>
        /\ string # "" /\ At(string, 0) \in {"(", "~"} =>
               LET first == _parse_prefix(From(string, 1)).val IN
               /\ first[1] = None => ret.val = first
               /\ first[1] # None /\ At(string, 0) = "(" /\ first[2] # "" =>
                      LET ops == {op \in {"&", "|", "->"} :
                                      StartsWith(first[2], op, 0)} IN
                      /\ ops = {} => ret.val = <<None, "Invalid operator">>
                      /\ \A op \in ops :
                             LET second ==
                                 _parse_prefix(From(first[2], Len(op))).val IN
                             second[1] = None => ret.val = second

\* (p<->q7): <-> is tried and is no binary operator
PrefixReportsFailureAsDataReached ==
    /\ call = <<"_parse_prefix">>
    /\ string = "(p<->q7)"
    /\ ret = Return(<<None, "Invalid operator">>)

\* f is a formula the constructor accepts, all the way down.
RECURSIVE WellFormed(_)
WellFormed(f) ==
    IF f.root \in {"T", "F"} \/ (IsLetter(At(f.root, 0)) /\
                                 \A i \in 1 .. Len(f.root) - 1 : IsDigit(At(f.root, i)))
    THEN f.now = None /\ f.next = None
    ELSE IF f.root = "~"
    THEN f.now # None /\ f.next = None /\ WellFormed(f.now[1])
    ELSE /\ f.root \in {"&", "|", "->"}
         /\ f.now # None /\ f.next # None
         /\ WellFormed(f.now[1]) /\ WellFormed(f.next[1])

PolishCharacters ==
    {"T", "F", "~", "&", "|", "+", "-", "<", ">", "0", "1", "2", "7",
     "p", "q", "r", "x", "y", "z"}

\* C7: parse_polish returns a formula only for a text that is the polish
\* form of that formula; on every other text, the empty one and one with a
\* character of no symbol among them, it raises ValueError.
ParsePolishRejectsTheRest ==
    call = <<"parse_polish">> =>
        /\ ret.exc \in {"", "ValueError"}
        /\ ret.exc = "" => WellFormed(ret.val) /\ polish(ret.val) = string
        /\ string = "" => ret.exc = "ValueError"
        /\ (\E i \in 0 .. Len(string) - 1 : At(string, i) \notin PolishCharacters)
               => ret.exc = "ValueError"

\* ~pT: two nodes are left on the stack
ParsePolishRejectsTheRestReached ==
    /\ call = <<"parse_polish">>
    /\ string = "~pT"
    /\ ret = Raise("ValueError", "Invalid")

\* C8: is_variable, is_constant, is_unary and is_binary return True or
\* False for every text, the empty one too, and is_variable returns True
\* exactly for a letter of p..z followed by decimal digits only.
ClassifiersAreTotal ==
    Len(call) = 1 /\ call[1] \in {"is_variable", "is_constant", "is_unary", "is_binary"} =>
        /\ ret.exc = ""
        /\ ret.val \in BOOLEAN
        /\ call[1] = "is_variable" =>
               ret.val = (/\ string # ""
                          /\ IsLetter(At(string, 0))
                          /\ \A i \in 1 .. Len(string) - 1 : IsDigit(At(string, i)))

\* C6: Formula(root, now, next) returns a formula, with that root and those
\* operands, exactly when root is a constant or a variable and there is no
\* operand, or is ~ and there is operand 1 only, or is &, | or -> and there
\* are both operands; in every other case, a root of no kind among them, the
\* constructor's own check fails (an AssertionError) and nothing is returned.
ConstructorChecksArity ==
    call = <<"Formula">> =>
        LET now == args[1]
            next == args[2]
            leaf == \/ string \in {"T", "F"}
                    \/ /\ string # ""
                       /\ IsLetter(At(string, 0))
                       /\ \A i \in 1 .. Len(string) - 1 : IsDigit(At(string, i))
            fits == \/ leaf /\ now = None /\ next = None
                    \/ string = "~" /\ now # None /\ next = None
                    \/ string \in {"&", "|", "->"} /\ now # None /\ next # None
        IN  IF fits
            THEN ret = Return([root |-> string, now |-> now, next |-> next])
            ELSE ret.exc = "AssertionError"

\* The value a substitution map holds for a key, None for a key it lacks.
Lookup(substitution_map, key) ==
    LET hits == {i \in 1 .. Len(substitution_map) : substitution_map[i][1] = key}
    IN  IF hits = {} THEN None
        ELSE Some(substitution_map[CHOOSE i \in hits : TRUE][2])

IsVariableName(s) ==
    /\ s # ""
    /\ IsLetter(At(s, 0))
    /\ \A i \in 1 .. Len(s) - 1 : IsDigit(At(s, i))

\* The formula C4 describes: each variable that is a key replaced by the
\* map's formula as it stands, everything else kept.
RECURSIVE WithVariablesReplaced(_, _)
WithVariablesReplaced(f, substitution_map) ==
    IF IsVariableName(f.root)
    THEN IF Lookup(substitution_map, f.root) = None THEN f
         ELSE Lookup(substitution_map, f.root)[1]
    ELSE [root |-> f.root,
          now |-> IF f.now = None THEN None
                  ELSE Some(WithVariablesReplaced(f.now[1], substitution_map)),
          next |-> IF f.next = None THEN None
                   ELSE Some(WithVariablesReplaced(f.next[1], substitution_map))]

\* C4: substitute_variables returns the formula in which every variable
\* that is a key of the map is replaced by the map's formula as it stands
\* and every constant, operator and other variable is kept: the formula
\* itself under the empty map, (((q&r)->(q&r))|p) for ((p->p)|r) under
\* {p: (q&r), r: p}.
SubstituteVariablesReplaces ==
    /\ call = <<"substitute_variables">>
    /\ \A i \in 1 .. Len(args) : IsVariableName(args[i][1])
    => /\ ret.exc = ""
       /\ ret.val # None
       /\ ret.val = WithVariablesReplaced(formula[1], args)

\* The formula C5 describes, bottom-up: the operands first, then the
\* template of the root, if the map holds one, with p and q replaced by them.
RECURSIVE WithOperatorsReplaced(_, _)
WithOperatorsReplaced(f, substitution_map) ==
    IF IsVariableName(f.root) THEN f
    ELSE LET now == IF f.now = None THEN None
                    ELSE Some(WithOperatorsReplaced(f.now[1], substitution_map))
             next == IF f.next = None THEN None
                     ELSE Some(WithOperatorsReplaced(f.next[1], substitution_map))
             template == Lookup(substitution_map, f.root)
         IN  IF template = None
             THEN [root |-> f.root, now |-> now, next |-> next]
             ELSE WithVariablesReplaced(
                      template[1],
                      (IF now = None THEN <<>> ELSE << <<"p", now[1]>> >>)
                          \o (IF next = None THEN <<>> ELSE << <<"q", next[1]>> >>))

\* The roots of a formula.
RECURSIVE Symbols(_)
Symbols(f) ==
    {f.root} \cup (IF f.now = None THEN {} ELSE Symbols(f.now[1]))
             \cup (IF f.next = None THEN {} ELSE Symbols(f.next[1]))

\* C5: substitute_operators returns the formula rewritten bottom-up, each
\* root that is a key replaced by its template over the operands already
\* rewritten, the templates' own operators left alone; so a key whose
\* template is without it is nowhere in the result: ~(~~(~x|~y)|~~z) for
\* ((x&y)&~z) under {&: ~(~p|~q)}.
SubstituteOperatorsRewrites ==
    /\ call = <<"substitute_operators">>
    /\ \A i \in 1 .. Len(args) :
           /\ args[i][1] \in {"T", "F", "~", "&", "|", "->"}
           /\ variables(args[i][2]) \subseteq {"p", "q"}
    => /\ ret.exc = ""
       /\ ret.val # None
       /\ ret.val = WithOperatorsReplaced(formula[1], args)
       /\ \A i \in 1 .. Len(args) :
              (\A j \in 1 .. Len(args) : args[i][1] \notin Symbols(args[j][2]))
                  => args[i][1] \notin Symbols(ret.val)

====
